---- MODULE Spec2Model ----
(***************************************************************************)
(* Model of createModalContext (src/src/core.ts): the modal registry       *)
(* (modalsMap), the open queue (modalQueue), the close-guard maps          *)
(* (meta.closePromises) and the asynchronous close negotiation             *)
(* (closeModal), together with the operations makeModal returns.           *)
(*                                                                         *)
(* Records are JavaScript objects: closeModal keeps a reference (its local *)
(* modal) to the record it started on, and open() on a closing identity    *)
(* replaces the record in the map by a new object while the suspended      *)
(* closeModal still holds the old one.  modalsMap[id] is the record object *)
(* the map holds for id; detached[id] lists the record objects of id that  *)
(* left the map and are still referenced by a suspended closeModal, oldest *)
(* first.  A record nothing references any more is garbage and is dropped. *)
(* A reference to a record is the pair of its identity and its position:   *)
(* position 0 is the record in the map, position k > 0 is detached[id][k]. *)
(*                                                                         *)
(* closeModal is an async function: it runs synchronously up to its first  *)
(* await (line 159), i.e. up to and including the call of the first guard, *)
(* and is resumed once per guard completion.  The state of a suspended     *)
(* call is the field neg of the record it holds; Resume is its             *)
(* continuation.                                                           *)
(***************************************************************************)
EXTENDS Integers, Sequences, FiniteSets, TLC

\* ------------------------------------------------------------- bounds
MaxDetached == 1     \* replaced records a suspended closeModal still holds
MaxQueue == 2        \* length of modalQueue
MaxGuards == 2       \* guard registrations on the records in memory (Spec)
MaxPropGuards == 1   \* the same, where the props are studied (SpecProps)
MaxOrdered == 3      \* the same, where the guard order is studied (SpecGuards)
MaxRenderGuards == 1 \* the same, with the renderer's signals (SpecRender)

baseZIndex == 1000   \* DEFAULT_OPTIONS.baseZIndex

Ids == {1, 2}        \* modal identities (the symbols makeModal mints)
Owners == {1, 2}     \* guard-owner identities (componentId symbols)
Keys == {"content"}  \* prop names
Vals == {1, 2}       \* prop values

\* The prop bags a caller passes to open(): partial maps from keys to values.
Bags == UNION {[K -> Vals] : K \in SUBSET Keys}
EmptyBag == [k \in {} |-> 0]

\* Object.assign(target, source)
ObjectAssign(t, s) ==
    [k \in (DOMAIN t) \cup (DOMAIN s) |-> IF k \in DOMAIN s THEN s[k] ELSE t[k]]

VARIABLES
    allowMultiple,  \* mergedOptions.allowMultiple, fixed at construction
    modalsMap,      \* identity -> the record the map holds, NoRec when absent
    detached,       \* identity -> records replaced in the map, still referenced
    modalQueue      \* sequence of identities

vars == <<allowMultiple, modalsMap, detached, modalQueue>>

\* No suspended closeModal holds the record.  Of a suspended call, fns is
\* its list allFns, idx the guard it awaits, by and quiet who called it, and
\* sig whether the caller is the renderer's onUpdate:visible handler.
NoNeg == [fns |-> <<>>, idx |-> 0, by |-> 0, quiet |-> FALSE, sig |-> FALSE]

\* The map has no entry.  Besides the fields of the source's record
\* (props with visible and style.zIndex, meta.isClosing, meta.closePromises)
\* a record carries the state neg of the closeModal call suspended on it and
\* a history field: fnOwner[g] is the owner that registered guard g on it
\* (the guards of a record are numbered in registration order).
NoRec ==
    [props |-> EmptyBag, visible |-> FALSE, zIndex |-> 0,
     isClosing |-> "none", closePromises |-> <<>>, fnOwner |-> <<>>,
     neg |-> NoNeg]

\* meta.isClosing is optional: "unset" (undefined), "yes" (true), "no" (false).
Truthy(c) == c = "yes"

\* ------------------------------------------------------------ helpers
Range(s) == {s[i] : i \in 1..Len(s)}

\* Array.prototype.indexOf, 1-based, 0 when absent
IndexOf(q, x) ==
    IF \E i \in 1..Len(q) : q[i] = x
    THEN CHOOSE i \in 1..Len(q) : q[i] = x /\ \A j \in 1..(i - 1) : q[j] # x
    ELSE 0

\* Array.prototype.splice(i, 1)
Splice(q, i) == [j \in 1..(Len(q) - 1) |-> IF j < i THEN q[j] ELSE q[j + 1]]

\* Array.from(closePromises.values()).flat(): the owners' lists, in the
\* map's insertion order, concatenated.
RECURSIVE Flat(_)
Flat(cp) == IF cp = <<>> THEN <<>> ELSE Head(cp).fns \o Flat(Tail(cp))

\* Position of an owner's entry in a guard map, 0 when absent.
OwnerIndex(cp, o) ==
    IF \E i \in 1..Len(cp) : cp[i].owner = o
    THEN CHOOSE i \in 1..Len(cp) : cp[i].owner = o
    ELSE 0

\* The store the operations work on; full is set when an operation needs
\* more memory than the bounds give.
Store ==
    [map |-> modalsMap, det |-> detached, queue |-> modalQueue, full |-> FALSE]

\* The record a reference <<id, k>> points to, and a write through it.
RecAt(S, id, k) == IF k = 0 THEN S.map[id] ELSE S.det[id][k]

PutRec(S, id, k, rec) ==
    IF k = 0 THEN [S EXCEPT !.map[id] = rec] ELSE [S EXCEPT !.det[id][k] = rec]

\* Garbage collection: a detached record no closeModal holds is dropped.
Referenced(rec) == rec.neg # NoNeg

Collect(S) ==
    [S EXCEPT !.det = [id \in Ids |-> SelectSeq(S.det[id], Referenced)]]

\* makeModal(comp, id).isVisible(), lines 188-191
isVisible(S, id) ==
    IF S.map[id] # NoRec THEN S.map[id].visible ELSE FALSE

\* ----------------------------------------------------- guard registry
\* (mutant of Unshift: the guard is put last, push in the place of unshift)
Push(fns, g) == Append(fns, g)

\* componentPromises.unshift(fn), line 132
Unshift(fns, g) == <<g>> \o fns

\* closePromises.get(componentId) || [] ; unshift ; closePromises.set(...),
\* lines 130-133.  A Map keeps the position of a key that is set again.
MapSetGuard(cp, o, g) ==
    LET i == OwnerIndex(cp, o) IN
    IF i # 0 THEN [cp EXCEPT ![i].fns = Unshift(@, g)]
    ELSE Append(cp, [owner |-> o, fns |-> Unshift(<<>>, g)])

\* (mutant of MapDeleteOwner: clear() in the place of delete(componentId))
MapClear(cp, o) == <<>>

\* closePromises.delete(componentId), line 140
MapDeleteOwner(cp, o) ==
    LET i == OwnerIndex(cp, o) IN
    IF i # 0 THEN Splice(cp, i) ELSE cp

\* ------------------------------------------------------- closeModal
\* (mutant of SkipsClose: the isClosing test of line 147 is left out)
SkipsCloseAbsent(S, id) == S.map[id] = NoRec

\* line 147: the early return of closeModal
SkipsClose(S, id) ==
    S.map[id] = NoRec \/ Truthy(S.map[id].isClosing)

\* (mutant of Finish: the isClosing test of line 173 is left out)
FinishUnchecked(S, id, k) ==
    LET queueIndex == IndexOf(S.queue, id) IN
    [st |-> [PutRec(S, id, k, [RecAt(S, id, k) EXCEPT !.neg = NoNeg])
                EXCEPT !.map[id] = NoRec,
                       !.queue = IF queueIndex > 0
                                 THEN Splice(@, queueIndex) ELSE @],
     ret |-> "true"]

\* lines 173-182: the end of a negotiation whose guards all allowed
Finish(S, id, k) ==
    LET modal == RecAt(S, id, k)
        S1 == PutRec(S, id, k, [modal EXCEPT !.neg = NoNeg])
    IN  IF Truthy(modal.isClosing)
        THEN LET queueIndex == IndexOf(S.queue, id) IN
             [st |-> [S1 EXCEPT !.map[id] = NoRec,
                                !.queue = IF queueIndex > 0
                                          THEN Splice(@, queueIndex) ELSE @],
              ret |-> "true"]
        ELSE [st |-> S1, ret |-> "false"]

\* (mutant of Denied: isClosing is not cleared, line 161 left out)
DeniedStaysClosing(S, id, k) ==
    [st |-> PutRec(S, id, k, [RecAt(S, id, k) EXCEPT !.visible = TRUE,
                                                    !.neg = NoNeg]),
     ret |-> "false"]

\* (mutant of Denied: visible is not set back to true, line 162 left out)
DeniedStaysHidden(S, id, k) ==
    [st |-> PutRec(S, id, k, [RecAt(S, id, k) EXCEPT !.isClosing = "no",
                                                    !.neg = NoNeg]),
     ret |-> "false"]

\* lines 160-165: a guard returned false
Denied(S, id, k) ==
    [st |-> PutRec(S, id, k, [RecAt(S, id, k) EXCEPT
                !.isClosing = "no", !.visible = TRUE, !.neg = NoNeg]),
     ret |-> "false"]

\* (mutant of Caught: the catch block sets visible back to true as well)
CaughtShows(S, id, k) ==
    [st |-> PutRec(S, id, k, [RecAt(S, id, k) EXCEPT !.isClosing = "no",
                                                    !.visible = TRUE,
                                                    !.neg = NoNeg]),
     ret |-> "false"]

\* lines 167-171: a guard threw, or the promise it returned rejected
Caught(S, id, k) ==
    [st |-> PutRec(S, id, k, [RecAt(S, id, k) EXCEPT
                !.isClosing = "no", !.neg = NoNeg]),
     ret |-> "false"]

\* (mutant of Invoke: the guards from number i on are all called at once,
\* as with Promise.all, and the negotiation awaits the last)
InvokeRest(S, id, k, i, thr) ==
    IF thr
    THEN Caught(S, id, k)
    ELSE [st |-> PutRec(S, id, k, [RecAt(S, id, k) EXCEPT
                              !.neg.idx = Len(RecAt(S, id, k).neg.fns)]),
          ret |-> "pending"]

\* lines 158-159: call guard number i of the negotiation on <<id, k>>.  The
\* call either throws (thr) or returns a value or promise closeModal awaits.
Invoke(S, id, k, i, thr) ==
    IF thr
    THEN Caught(S, id, k)
    ELSE [st |-> PutRec(S, id, k, [RecAt(S, id, k) EXCEPT !.neg.idx = i]),
          ret |-> "pending"]

\* History: another call intervened in the evictions in flight.
Disturbed(rec) ==
    IF rec.neg.quiet THEN [rec EXCEPT !.neg.quiet = FALSE] ELSE rec

Disturb(S) ==
    [S EXCEPT !.map = [id \in Ids |-> Disturbed(S.map[id])],
              !.det = [id \in Ids |->
                          [j \in 1..Len(S.det[id]) |-> Disturbed(S.det[id][j])]]]

\* lines 145-159: closeModal(id) up to its first await.  by is the identity
\* whose open() evicts id (0 for any other caller).
closeModal(S0, id, thr, by) ==
    IF SkipsClose(S0, id)
    THEN [st |-> S0, ret |-> "false", called |-> 0]
    ELSE LET S == Disturb(S0)
             allFns == Flat(S.map[id].closePromises)
             S1 == [S EXCEPT !.map[id].visible = FALSE,
                             !.map[id].isClosing = "yes",
                             !.map[id].neg = [fns |-> allFns, idx |-> 0,
                                              by |-> by, quiet |-> by # 0,
                                              sig |-> FALSE]]
         IN  IF allFns = <<>>
             THEN Finish(S1, id, 0) @@ [called |-> 0]
             ELSE Invoke(S1, id, 0, 1, thr) @@ [called |-> allFns[1]]

\* The guard results closeModal tells apart, and a rejected promise.
Outcomes == {"true", "undefined", "false", "reject"}

\* lines 159-182: the continuation of the closeModal call holding <<id, k>>
\* after the guard it awaits completed with out.
resume(S, id, k, out, thr) ==
    LET n == RecAt(S, id, k).neg IN
    IF out = "reject" THEN Caught(S, id, k) @@ [called |-> 0]
    ELSE IF out = "false" THEN Denied(S, id, k) @@ [called |-> 0]
    ELSE IF n.idx < Len(n.fns)
         THEN Invoke(S, id, k, n.idx + 1, thr) @@ [called |-> n.fns[n.idx + 1]]
         ELSE Finish(S, id, k) @@ [called |-> 0]

\* ------------------------------------------------------------- open
\* (mutant of Evict: open() closes no other modal)
EvictNone(S, id, thr) == [st |-> S, ret |-> "none", called |-> 0]

\* lines 193-200: with allowMultiple off, close the last modal of the queue
Evict(S, id, thr) ==
    IF ~allowMultiple /\ Len(S.queue) > 0
    THEN LET lastModalId == S.queue[Len(S.queue)] IN
         IF S.map[lastModalId] # NoRec
         THEN closeModal(S, lastModalId, thr, id)
         ELSE [st |-> S, ret |-> "none", called |-> 0]
    ELSE [st |-> S, ret |-> "none", called |-> 0]

\* (mutant of NewRecord: the record is created with visible false)
NewRecordHidden(S, props) ==
    [props |-> props, visible |-> FALSE,
     zIndex |-> baseZIndex + Len(S.queue),
     isClosing |-> "unset", closePromises |-> <<>>, fnOwner |-> <<>>,
     neg |-> NoNeg]

\* lines 225-232: the record open() creates
NewRecord(S, props) ==
    [props |-> props, visible |-> TRUE,
     zIndex |-> baseZIndex + Len(S.queue),
     isClosing |-> "unset", closePromises |-> <<>>, fnOwner |-> <<>>,
     neg |-> NoNeg]

\* lines 212-233: push the identity and set the new record
Create(S, id, props) ==
    IF Len(S.queue) >= MaxQueue
    THEN [S EXCEPT !.full = TRUE]
    ELSE [S EXCEPT !.queue = Append(@, id),
                   !.map[id] = NewRecord(S, props)]

\* The number of records that left the map.
RECURSIVE CountDetached(_, _)
CountDetached(det, ids) ==
    IF ids = {} THEN 0
    ELSE LET i == CHOOSE i \in ids : TRUE
         IN  Len(det[i]) + CountDetached(det, ids \ {i})

\* lines 208-209: the closing record leaves the map; the closeModal call
\* suspended on it keeps it
Detach(S, id) ==
    IF CountDetached(S.det, Ids) >= MaxDetached
    THEN [S EXCEPT !.full = TRUE]
    ELSE [S EXCEPT !.det[id] = Append(@, [S.map[id] EXCEPT !.isClosing = "no"]),
                   !.map[id] = NoRec]

\* lines 202-233: open() after the eviction
OpenBody(S, id, props) ==
    IF S.map[id] # NoRec
    THEN LET S1 == [S EXCEPT !.map[id].props = ObjectAssign(@, props)] IN
         IF ~Truthy(S1.map[id].isClosing)
         THEN S1
         ELSE Create(Detach(S1, id), id, props)
    ELSE Create(S, id, props)

\* makeModal(comp, id).open(props), lines 192-236
open(S, id, props, thr) ==
    OpenBody(Evict(Disturb(S), id, thr).st, id, props)

\* makeModal(comp, id).close(), lines 237-243
close(S, id, thr) ==
    IF S.map[id] # NoRec
    THEN closeModal(S, id, thr, 0)
    ELSE [st |-> S, ret |-> "false", called |-> 0]

\* The number of guard registrations on the records in memory.
RECURSIVE SumRegs(_)
SumRegs(s) == IF s = <<>> THEN 0 ELSE Len(Head(s).fnOwner) + SumRegs(Tail(s))

RECURSIVE Registered(_, _)
Registered(S, ids) ==
    IF ids = {} THEN 0
    ELSE LET i == CHOOSE i \in ids : TRUE
         IN  Len(S.map[i].fnOwner) + SumRegs(S.det[i]) + Registered(S, ids \ {i})

\* addClosePromise(modalId, componentId, fn), lines 124-135
addClosePromise(S, id, o, max) ==
    IF S.map[id] # NoRec
    THEN IF Registered(S, Ids) >= max
         THEN [S EXCEPT !.full = TRUE]
         ELSE [S EXCEPT
                 !.map[id].closePromises =
                     MapSetGuard(@, o, Len(S.map[id].fnOwner) + 1),
                 !.map[id].fnOwner = Append(@, o)]
    ELSE S

\* removeComponentPromises(modalId, componentId), lines 137-143
removeComponentPromises(S, id, o) ==
    IF S.map[id] # NoRec
    THEN [S EXCEPT !.map[id].closePromises = MapDeleteOwner(@, o)]
    ELSE S

\* --------------------------------------------------------- renderer
\* lines 267-269: the handler's continuation once closeModal has returned;
\* props is the props object of the record the handler was rendered for
Reshow(R, id, k) ==
    IF R.ret = "false"
    THEN [R EXCEPT !.st = PutRec(R.st, id, k,
                              [RecAt(R.st, id, k) EXCEPT !.visible = TRUE])]
    ELSE R

\* (mutant of updateVisible: value false hides the record at once, without
\* a call of closeModal)
hideAtOnce(S, id, value, thr) ==
    IF S.map[id] = NoRec
    THEN [st |-> S, ret |-> "none", called |-> 0]
    ELSE [st |-> [S EXCEPT !.map[id].visible = value],
          ret |-> "none", called |-> 0]

\* 'onUpdate:visible'(value) of the component rendered for id, lines 262-270
updateVisible(S, id, value, thr) ==
    IF S.map[id] = NoRec
    THEN [st |-> S, ret |-> "none", called |-> 0]
    ELSE IF value
         THEN [st |-> [S EXCEPT !.map[id].visible = TRUE],
               ret |-> "none", called |-> 0]
         ELSE LET R == closeModal(S, id, thr, 0) IN
              IF R.ret = "pending"
              THEN [R EXCEPT !.st.map[id].neg.sig = TRUE]
              ELSE Reshow(R, id, 0)

\* --------------------------------------------------------- the state
Init ==
    /\ allowMultiple \in BOOLEAN
    /\ modalsMap = [i \in Ids |-> NoRec]
    /\ detached = [i \in Ids |-> <<>>]
    /\ modalQueue = <<>>

SetStore(S) ==
    /\ ~S.full
    /\ modalsMap' = S.map
    /\ detached' = Collect(S).det
    /\ modalQueue' = S.queue
    /\ UNCHANGED allowMultiple

\* Whether closeModal(id) would call a guard before it returns.
CallsGuard(S, id) ==
    ~SkipsClose(S, id) /\ S.map[id].closePromises # <<>>

Throws(b) == IF b THEN BOOLEAN ELSE {FALSE}

Open(id, props) ==
    \E thr \in Throws(~allowMultiple /\ modalQueue # <<>>) :
        SetStore(open(Store, id, props, thr))

Close(id) ==
    \E thr \in Throws(CallsGuard(Store, id)) :
        SetStore(close(Store, id, thr).st)

\* the context's closeModal(id), lines 145-183, called directly
CloseModal(id) ==
    \E thr \in Throws(CallsGuard(Store, id)) :
        SetStore(closeModal(Store, id, thr, 0).st)

\* The references <<id, k>> a suspended closeModal holds.
Suspended(S) ==
    {x \in Ids \X (0..MaxDetached) :
        IF x[2] = 0 THEN S.map[x[1]].neg # NoNeg ELSE x[2] <= Len(S.det[x[1]])}

\* the guard awaited by the closeModal call holding <<id, k>> completes
Resume(id, k) ==
    /\ <<id, k>> \in Suspended(Store)
    /\ \E out \in Outcomes :
       \E thr \in Throws(out \in {"true", "undefined"}) :
          LET R == resume(Store, id, k, out, thr) IN
          SetStore((IF RecAt(Store, id, k).neg.sig
                    THEN Reshow(R, id, k) ELSE R).st)

AddClosePromise(id, o, max) ==
    SetStore(addClosePromise(Store, id, o, max))

\* The owners that registered a guard on a record in memory.
UsedOwners ==
    UNION {Range(modalsMap[i].fnOwner) : i \in Ids}
    \cup UNION {UNION {Range(detached[i][j].fnOwner) :
                          j \in 1..Len(detached[i])} : i \in Ids}

\* onBeforeClose(fn) in a component mounted inside modal id, lines 75-101:
\* the owner is a fresh symbol (line 94)
OnBeforeClose(id, owners, max) ==
    \E o \in owners \ UsedOwners :
        /\ \A p \in owners \ UsedOwners : o <= p
        /\ SetStore(addClosePromise(Store, id, o, max))

\* removeComponentPromises called directly or by the onUnmounted hook of
\* onBeforeClose (lines 98-100)
RemoveComponentPromises(id, o) ==
    SetStore(removeComponentPromises(Store, id, o))

\* One step of the program: a call of one of its operations by the
\* application, or the continuation of a suspended closeModal.
Step(ids, bags, owners, max) ==
    \/ \E id \in ids, props \in bags : Open(id, props)
    \/ \E id \in ids : Close(id)
    \/ \E id \in ids : CloseModal(id)
    \/ \E id \in ids, k \in 0..MaxDetached : Resume(id, k)
    \/ \E id \in ids, o \in owners : AddClosePromise(id, o, max)
    \/ \E id \in ids : OnBeforeClose(id, owners, max)
    \/ \E id \in ids, o \in owners : RemoveComponentPromises(id, o)

\* The modal lifecycle: two identities, guards of one owner, no props.
Next == Step(Ids, {EmptyBag}, {1}, MaxGuards)
Spec == Init /\ [][Next]_vars

\* The props of the records: two identities, every prop bag, one guard.
NextProps == Step(Ids, Bags, {1}, MaxPropGuards)
SpecProps == Init /\ [][NextProps]_vars

\* The guard order: one identity, two guard owners, no props.
NextGuards == Step({1}, {EmptyBag}, Owners, MaxOrdered)
SpecGuards == Init /\ [][NextGuards]_vars

\* the renderer's component for id emits update:visible with value
UpdateVisible(id, value) ==
    /\ modalsMap[id] # NoRec
    /\ \E thr \in Throws(~value /\ CallsGuard(Store, id)) :
          SetStore(updateVisible(Store, id, value, thr).st)

\* The lifecycle with the renderer's visibility signals.
NextRender ==
    \/ Step(Ids, {EmptyBag}, {1}, MaxRenderGuards)
    \/ \E id \in Ids, value \in BOOLEAN : UpdateVisible(id, value)
SpecRender == Init /\ [][NextRender]_vars

\* One identity with the renderer's signals, where every guard that was
\* called completes: the continuation of each suspended closeModal is
\* eventually run.
NextLive ==
    \/ Step({1}, {EmptyBag}, {1}, MaxGuards)
    \/ \E id \in {1}, value \in BOOLEAN : UpdateVisible(id, value)
SpecLive ==
    /\ Init /\ [][NextLive]_vars
    /\ \A id \in Ids, k \in 0..MaxDetached : WF_vars(Resume(id, k))

\* Single-modal mode with guards that always allow: allowMultiple is off,
\* no guard throws, and every guard resolves to true or to no value.
InitSingle == Init /\ ~allowMultiple

OpenAllowed(id) == SetStore(open(Store, id, EmptyBag, FALSE))

CloseAllowed(id) == SetStore(close(Store, id, FALSE).st)

ResumeAllowed(id, k) ==
    /\ <<id, k>> \in Suspended(Store)
    /\ \E out \in {"true", "undefined"} :
          SetStore(resume(Store, id, k, out, FALSE).st)

NextSingle ==
    \/ \E id \in Ids : OpenAllowed(id)
    \/ \E id \in Ids : CloseAllowed(id)
    \/ \E id \in Ids, k \in 0..MaxDetached : ResumeAllowed(id, k)
    \/ \E id \in Ids : AddClosePromise(id, 1, MaxGuards)
    \/ \E id \in Ids : RemoveComponentPromises(id, 1)
SpecSingle == InitSingle /\ [][NextSingle]_vars

\* -------------------------------------------------------- properties
Closing(id) == modalsMap[id] # NoRec /\ modalsMap[id].isClosing = "yes"
Open_(id) == modalsMap[id] # NoRec /\ modalsMap[id].isClosing # "yes"

\* C1: open(newProps) on an identity whose close negotiation is suspended on
\* a pending guard leaves a record for the identity in the registry that is
\* visible, has isClosing not set and has exactly newProps as its props; and
\* whatever the pending guard and the guards after it return, the
\* continuation of the cancelled negotiation leaves the registry (the new
\* record included) and the queue as they are and returns false when it
\* ends.
C1_ReopenDuringClose ==
    \A id \in Ids :
        /\ Closing(id) =>
              /\ modalsMap[id].neg # NoNeg
              /\ \A props \in Bags, thr \in BOOLEAN :
                    LET S == open(Store, id, props, thr) IN
                    ~S.full =>
                        /\ S.map[id] # NoRec
                        /\ S.map[id].visible
                        /\ S.map[id].isClosing = "unset"
                        /\ S.map[id].props = props
        /\ \A k \in 1..Len(detached[id]), out \in Outcomes, thr \in BOOLEAN :
              LET R == resume(Store, id, k, out, thr) IN
              /\ R.st.map = modalsMap
              /\ R.st.queue = modalQueue
              /\ R.ret \in {"false", "pending"}

\* C1 witness: an identity was reopened while its close was pending; the
\* cancelled negotiation still holds the replaced record, whose props differ
\* from the props of the new, visible record.
C1_Witness ==
    \E id \in Ids :
        /\ detached[id] # <<>>
        /\ modalsMap[id] # NoRec
        /\ modalsMap[id].visible
        /\ modalsMap[id].isClosing = "unset"
        /\ modalsMap[id].props # detached[id][1].props

\* C8: closeModal(id), and close(), on an identity that has no record or
\* whose record is closing returns false at once, calls no guard and leaves
\* the registry, the records (flags, guard map, the negotiation in flight)
\* and the queue unchanged.
C8_CloseIdempotent ==
    \A id \in Ids, thr \in BOOLEAN :
        (modalsMap[id] = NoRec \/ modalsMap[id].isClosing = "yes") =>
            LET R == closeModal(Store, id, thr, 0)
                Q == close(Store, id, thr)
            IN  /\ R.ret = "false" /\ R.called = 0 /\ R.st = Store
                /\ Q.ret = "false" /\ Q.called = 0 /\ Q.st = Store

\* C8 witness: a record is closing, its negotiation suspended on its second
\* guard; a closeModal arriving now takes the early return.
C8_Witness ==
    \E id \in Ids :
        /\ Closing(id)
        /\ modalsMap[id].neg.idx = 2
        /\ id \in Range(modalQueue)

Last(q) == q[Len(q)]
Without(q, id) == SelectSeq(q, LAMBDA x : x # id)

\* C2: the queue lists the open identities in opening order: open() of an
\* identity without a record puts it last and gives its record a stacking
\* value strictly greater than that of every other modal in the queue, and
\* a successful close takes the identity out of the queue and leaves the
\* order of the others as it was.
C2_StackingOrder ==
    \A id \in Ids, thr \in BOOLEAN :
        /\ modalsMap[id] = NoRec =>
              LET S == open(Store, id, EmptyBag, thr) IN
              ~S.full =>
                  /\ Last(S.queue) = id
                  /\ \A b \in Range(S.queue) \ {id} :
                        S.map[b] # NoRec =>
                            S.map[id].zIndex > S.map[b].zIndex
        /\ LET R == close(Store, id, thr) IN
           R.ret = "true" => R.st.queue = Without(modalQueue, id)

\* C3: a close of an open modal on which no open() intervenes and whose
\* guards all allow returns true and leaves the identity neither in the
\* registry nor in the queue, whatever came before; a further close() of
\* the identity returns false, calls no guard and changes nothing.
C3_SuccessfulClose ==
    \A id \in Ids :
        /\ (Open_(id) /\ modalsMap[id].closePromises = <<>>) =>
              LET R == close(Store, id, FALSE) IN
              /\ R.ret = "true"
              /\ R.st.map[id] = NoRec
              /\ id \notin Range(R.st.queue)
              /\ close(R.st, id, FALSE) =
                    [st |-> R.st, ret |-> "false", called |-> 0]
        /\ (Closing(id) /\ modalsMap[id].neg.idx = Len(modalsMap[id].neg.fns)) =>
              \A out \in {"true", "undefined"} :
                  LET R == resume(Store, id, 0, out, FALSE) IN
                  /\ R.ret = "true"
                  /\ R.st.map[id] = NoRec
                  /\ id \notin Range(R.st.queue)
                  /\ close(R.st, id, FALSE) =
                        [st |-> R.st, ret |-> "false", called |-> 0]

\* C6: with allowMultiple = false, open(B) while A is the open modal starts
\* A's close negotiation (all of A's guards, in evaluation order) and shows
\* B at once; when one of A's guards denies, A and B are both in the
\* registry and both visible; when all of A's guards allow, A is in neither
\* the registry nor the queue and B is in both.
C6_Eviction ==
    ~allowMultiple =>
        \A A \in Ids : \A B \in Ids \ {A} :
            /\ (modalQueue # <<>> /\ Last(modalQueue) = A /\ Open_(A)) =>
                  LET S == open(Store, B, EmptyBag, FALSE) IN
                  ~S.full =>
                      /\ S.map[B] # NoRec /\ B \in Range(S.queue)
                      /\ IF modalsMap[A].closePromises = <<>>
                         THEN S.map[A] = NoRec /\ A \notin Range(S.queue)
                         ELSE /\ S.map[A].isClosing = "yes"
                              /\ S.map[A].neg.fns = Flat(modalsMap[A].closePromises)
                              /\ S.map[A].neg.idx = 1
            /\ (Closing(A) /\ modalsMap[A].neg.by = B /\ modalsMap[A].neg.quiet) =>
                  \A out \in Outcomes :
                      LET R == resume(Store, A, 0, out, FALSE) IN
                      /\ out = "false" =>
                            /\ isVisible(R.st, A)
                            /\ isVisible(R.st, B)
                      /\ R.ret = "true" =>
                            /\ R.st.map[A] = NoRec
                            /\ A \notin Range(R.st.queue)
                            /\ R.st.map[B] # NoRec
                            /\ B \in Range(R.st.queue)

\* C9: in every configuration, open(newProps) on an identity whose record
\* is in the registry and is not closing merges newProps into the record's
\* props and changes nothing else: the record (visible, stacking value,
\* guard map, no negotiation) and the queue are as before, and no guard is
\* called.
C9_OpenMerges ==
    \A id \in Ids, props \in Bags, thr \in BOOLEAN :
        Open_(id) =>
            LET S == open(Store, id, props, thr) IN
            ~S.full =>
                /\ S.map[id] = [modalsMap[id] EXCEPT
                                   !.props = ObjectAssign(@, props)]
                /\ S.queue = modalQueue
                /\ Evict(Store, id, thr).called = 0

\* The outcome the specification gives a denied negotiation on a record
\* for identity id: false is returned, no further guard is called, and the
\* identity's record is in the registry, not closing, visible, and the
\* identity is in the queue.
DenyRestores(R, id) ==
    /\ R.ret = "false"
    /\ R.called = 0
    /\ R.st.map[id] # NoRec
    /\ R.st.map[id].isClosing # "yes"
    /\ isVisible(R.st, id)
    /\ id \in Range(R.st.queue)

\* The outcome of a step of a negotiation that open() has cancelled: it
\* touches neither the registry nor the queue.
StaleIsInert(R) ==
    /\ R.st.map = modalsMap
    /\ R.st.queue = modalQueue

\* C4 (as stated): when a guard of any suspended negotiation resolves to
\* false, no guard after it is called, close() returns false, and the
\* modal is in the registry and in the queue with isClosing false and
\* visible, so that isVisible() is true.
C4_DenyHalts_AsStated ==
    \A id \in Ids, k \in 0..MaxDetached :
        <<id, k>> \in Suspended(Store) =>
            DenyRestores(resume(Store, id, k, "false", FALSE), id)

\* C4 (amended): when a guard resolves to false, no guard after it is
\* called and close() returns false; if no open() on the identity has
\* cancelled the negotiation, the modal's record is in the registry and in
\* the queue with isClosing = false and visible = true; if an open() has
\* cancelled it, the registry and the queue are left as they are.
C4_DenyHalts ==
    \A id \in Ids :
        /\ modalsMap[id].neg # NoNeg =>
              LET R == resume(Store, id, 0, "false", FALSE) IN
              /\ DenyRestores(R, id)
              /\ R.st.map[id].isClosing = "no"
              /\ R.st.map[id].neg = NoNeg
              /\ R.st.queue = modalQueue
        /\ \A k \in 1..Len(detached[id]) :
              LET R == resume(Store, id, k, "false", FALSE) IN
              /\ R.ret = "false" /\ R.called = 0
              /\ StaleIsInert(R)

\* C4 witness: a guard has denied the close of a modal that has two guards:
\* the record is back to visible with isClosing = false.
C4_Witness ==
    \E id \in Ids :
        /\ modalsMap[id].isClosing = "no"
        /\ modalsMap[id].visible
        /\ Len(Flat(modalsMap[id].closePromises)) = 2
        /\ id \in Range(modalQueue)

\* The outcome the specification gives a negotiation whose guard throws or
\* rejects: false is returned, the identity's record is in the registry and
\* the queue, not closing, and not visible.
ErrorAborts(R, id) ==
    /\ R.ret = "false"
    /\ R.st.map[id] # NoRec
    /\ R.st.map[id].isClosing # "yes"
    /\ ~R.st.map[id].visible
    /\ id \in Range(R.st.queue)

Min(X) == CHOOSE x \in X : \A y \in X : x <= y

\* The guards of a record are numbered in the order of their registration,
\* and fnOwner[g] is the component that registered guard g.
\* FirstEver: the component's first registration on the record.
\* FirstLive: the component's earliest registration that is still in the
\* guard map, which is the one that created its current entry.
FirstEver(rec, o) == Min({g \in 1..Len(rec.fnOwner) : rec.fnOwner[g] = o})
FirstLive(rec, o) ==
    Min({g \in Range(Flat(rec.closePromises)) : rec.fnOwner[g] = o})

\* The list fns has the guards of one component together, most recently
\* registered first, and the components in the order given by First.
Ordered(rec, fns, First(_, _)) ==
    \A i, j \in 1..Len(fns) :
        i < j =>
            LET oi == rec.fnOwner[fns[i]]
                oj == rec.fnOwner[fns[j]]
            IN  IF oi = oj THEN fns[i] > fns[j]
                ELSE First(rec, oi) < First(rec, oj)

\* The guards are called one after the other down the negotiation's list:
\* closeModal calls the first, each allowing answer calls the next.
CalledInOrder ==
    \A id \in Ids :
        /\ (Open_(id) /\ modalsMap[id].closePromises # <<>>) =>
              LET R == closeModal(Store, id, FALSE, 0) IN
              /\ R.ret = "pending"
              /\ R.called = R.st.map[id].neg.fns[1]
              /\ R.st.map[id].neg.idx = 1
        /\ \A k \in 0..MaxDetached :
              <<id, k>> \in Suspended(Store) =>
                  LET n == RecAt(Store, id, k).neg IN
                  n.idx < Len(n.fns) =>
                      \A out \in {"true", "undefined"} :
                          LET R == resume(Store, id, k, out, FALSE) IN
                          /\ R.called = n.fns[n.idx + 1]
                          /\ RecAt(R.st, id, k).neg.idx = n.idx + 1
                          /\ RecAt(R.st, id, k).neg.fns = n.fns

\* The list of guards a negotiation started now on id's record would take.
Snapshot(S, id) == closeModal(S, id, FALSE, 0).st.map[id].neg.fns

C10_RemoveGuards ==
    \A id \in Ids, o \in Owners :
        LET S == removeComponentPromises(Store, id, o)
            cp == modalsMap[id].closePromises
            rest == SelectSeq(cp, LAMBDA e : e.owner # o)
        IN  /\ modalsMap[id] = NoRec => S = Store
            /\ modalsMap[id] # NoRec =>
                  /\ S = [Store EXCEPT !.map[id].closePromises = rest]
                  /\ \A g \in Range(Flat(S.map[id].closePromises)) :
                        modalsMap[id].fnOwner[g] # o
                  /\ OwnerIndex(cp, o) = 0 => S = Store
            /\ (Open_(id) /\ rest # <<>>) =>
                  Snapshot(S, id) =
                      SelectSeq(Snapshot(Store, id),
                                LAMBDA g : modalsMap[id].fnOwner[g] # o)
            /\ modalsMap[id] # NoRec =>
                  LET T == addClosePromise(Store, id, o, Registered(Store, Ids) + 1)
                  IN  /\ Range(Flat(T.map[id].closePromises)) =
                            Range(Flat(cp)) \cup {Len(modalsMap[id].fnOwner) + 1}
                      /\ Len(T.map[id].fnOwner) = Len(modalsMap[id].fnOwner) + 1

\* C10 witness: a component registered a guard on the modal and its guards
\* were removed since, another component's guards are still in the map,
\* and a negotiation is in flight whose list has none of the removed guards.
C10_Witness ==
    \E id \in Ids :
        /\ modalsMap[id].isClosing = "yes"
        /\ modalsMap[id].neg.fns # <<>>
        /\ \E o \in Range(modalsMap[id].fnOwner) :
              /\ OwnerIndex(modalsMap[id].closePromises, o) = 0
              /\ \A g \in Range(modalsMap[id].neg.fns) :
                    modalsMap[id].fnOwner[g] # o
              /\ modalsMap[id].neg.fns = Flat(modalsMap[id].closePromises)

\* The renderer's handler, started by a signal with value false, and its
\* continuation after the guard awaited on <<id, k>> completed with out.
signalFalse(id) == updateVisible(Store, id, FALSE, FALSE)
signalResume(id, k, out) ==
    Reshow(resume(Store, id, k, out, FALSE), id, k)

\* The negotiation on <<id, k>> awaits its last guard.
AtLastGuard(id, k) ==
    RecAt(Store, id, k).neg.idx = Len(RecAt(Store, id, k).neg.fns)

\* C11 (as stated): a visibility signal with value false for a mounted
\* modal starts the full close negotiation, guards included; when a guard
\* denies the negotiation the record is in the registry and visible; when
\* all guards allow the record is removed.
C11_RendererSignal_AsStated ==
    \A id \in Ids :
        /\ modalsMap[id] # NoRec =>
              LET R == signalFalse(id) IN
              IF Flat(modalsMap[id].closePromises) = <<>>
              THEN R.ret = "true" /\ R.st.map[id] = NoRec
              ELSE /\ R.ret = "pending"
                   /\ R.st.map[id].neg.fns = Flat(modalsMap[id].closePromises)
        /\ \A k \in 0..MaxDetached :
              (<<id, k>> \in Suspended(Store) /\ RecAt(Store, id, k).neg.sig) =>
                  /\ LET R == signalResume(id, k, "false") IN
                     R.st.map[id] # NoRec /\ R.st.map[id].visible
                  /\ AtLastGuard(id, k) =>
                        signalResume(id, k, "true").st.map[id] = NoRec

\* C11 (amended): a visibility signal with value false for a mounted modal
\* that is not closing starts the full close negotiation (all the guards
\* registered, the first called at once) and never leaves the record hidden
\* without a negotiation; when a guard denies and no open() has replaced
\* the record, the record is in the registry, visible and not closing; when
\* all guards allow and no open() has replaced the record, the record is
\* removed from the registry.  For a modal that is closing the signal starts
\* no negotiation; a negotiation that open() has cancelled leaves the
\* registry and the queue as they are.
C11_RendererSignal ==
    \A id \in Ids :
        /\ Open_(id) =>
              LET R == signalFalse(id)
                  fns == Flat(modalsMap[id].closePromises)
              IN  IF fns = <<>>
                  THEN R.ret = "true" /\ R.st.map[id] = NoRec
                  ELSE /\ R.ret = "pending"
                       /\ R.called = fns[1]
                       /\ R.st.map[id].neg.fns = fns
                       /\ R.st.map[id].neg.sig
                       /\ R.st.map[id].isClosing = "yes"
                       /\ ~R.st.map[id].visible
        /\ Closing(id) =>
              LET R == signalFalse(id) IN
              /\ R.ret = "false" /\ R.called = 0
              /\ R.st.map[id].neg = modalsMap[id].neg
        /\ modalsMap[id].neg.sig =>
              /\ LET R == signalResume(id, 0, "false") IN
                 /\ R.ret = "false" /\ R.called = 0
                 /\ R.st.map[id] # NoRec
                 /\ R.st.map[id].visible
                 /\ R.st.map[id].isClosing = "no"
              /\ AtLastGuard(id, 0) =>
                    LET R == signalResume(id, 0, "true") IN
                    R.ret = "true" /\ R.st.map[id] = NoRec
        /\ \A k \in 1..Len(detached[id]), out \in Outcomes :
              LET R == signalResume(id, k, out) IN
              R.st.map = modalsMap /\ R.st.queue = modalQueue

\* C11 witness: a visibility signal with value false started a negotiation
\* that is suspended on the modal's guard.
C11_Witness ==
    \E id \in Ids :
        /\ Closing(id)
        /\ modalsMap[id].neg.sig
        /\ modalsMap[id].neg.idx = 1
        /\ ~modalsMap[id].visible

\* C12: in every reachable state the identities in the queue are the
\* identities that have a record in the registry, and no identity is in the
\* queue twice.
C12_QueueRegistry ==
    /\ Range(modalQueue) = {id \in Ids : modalsMap[id] # NoRec}
    /\ \A i, j \in 1..Len(modalQueue) :
          i # j => modalQueue[i] # modalQueue[j]

\* The record of id is in the registry, not visible and not closing.
Hidden(id) ==
    /\ modalsMap[id] # NoRec
    /\ ~modalsMap[id].visible
    /\ modalsMap[id].isClosing # "yes"

\* C13 (as stated): in every reachable state every record in the registry
\* has visible = true or isClosing = true.
C13_RecordExistence_AsStated ==
    \A id \in Ids :
        modalsMap[id] # NoRec =>
            modalsMap[id].visible \/ modalsMap[id].isClosing = "yes"

\* C13 (amended): every record in the registry has visible = true or
\* isClosing = true, or a close negotiation on it was aborted by a guard
\* error: a record that is neither visible nor closing has isClosing =
\* false and has had a guard registered, and the only step that leaves a
\* record in that state is the error exit of closeModal (isClosing set to
\* false, visible left false, record kept in the registry and the queue).
C13_RecordExistence ==
    /\ [](\A id \in Ids :
            Hidden(id) =>
                modalsMap[id].isClosing = "no" /\ modalsMap[id].fnOwner # <<>>)
    /\ [][\A id \in Ids :
            (Hidden(id)' /\ ~Hidden(id)) =>
                /\ Closing(id) \/ modalsMap[id].closePromises # <<>>
                /\ modalsMap'[id] = [modalsMap[id] EXCEPT !.visible = FALSE,
                                                         !.isClosing = "no",
                                                         !.neg = NoNeg]
                /\ id \in Range(modalQueue')]_vars

\* C13 witness: a guard error aborted the close of a modal; its record is
\* in the registry with its guard, neither visible nor closing, and no
\* negotiation is in flight on it.
C13_Witness ==
    \E id \in Ids :
        /\ Hidden(id)
        /\ modalsMap[id].neg = NoNeg
        /\ modalsMap[id].closePromises # <<>>

\* The number of closeModal calls for id that have started and not returned.
InFlight(id) ==
    (IF modalsMap[id].neg # NoNeg THEN 1 ELSE 0) + Len(detached[id])

\* C14: for any one identity, at no time are two close negotiations in
\* flight, a negotiation that open() cancelled and whose guard is still
\* pending included.
C14_MutualExclusion ==
    \A id \in Ids : InFlight(id) <= 1

\* C15: within one negotiation the guards run one after the other.  A
\* suspended negotiation awaits exactly one guard, number idx of its list;
\* closeModal calls the first guard only; the completion of the awaited
\* guard is what calls the next one, and it calls that one only; a denial
\* or an error calls none; and no step of the program moves a negotiation
\* more than one guard forward.
C15_Sequential ==
    /\ [](\A id \in Ids :
            /\ (Open_(id) /\ modalsMap[id].closePromises # <<>>) =>
                  LET R == closeModal(Store, id, FALSE, 0) IN
                  /\ R.called = Flat(modalsMap[id].closePromises)[1]
                  /\ R.st.map[id].neg.idx = 1
            /\ \A k \in 0..MaxDetached :
                  <<id, k>> \in Suspended(Store) =>
                      LET n == RecAt(Store, id, k).neg IN
                      /\ n.idx \in 1..Len(n.fns)
                      /\ \A out \in Outcomes :
                            LET R == resume(Store, id, k, out, FALSE) IN
                            IF out \in {"true", "undefined"} /\ n.idx < Len(n.fns)
                            THEN /\ R.ret = "pending"
                                 /\ R.called = n.fns[n.idx + 1]
                                 /\ RecAt(R.st, id, k).neg.idx = n.idx + 1
                            ELSE R.called = 0 /\ R.ret # "pending")
    /\ [][\A id \in Ids :
            modalsMap'[id].neg # NoNeg =>
                IF modalsMap[id].neg # NoNeg
                THEN modalsMap'[id].neg.idx \in
                        {modalsMap[id].neg.idx, modalsMap[id].neg.idx + 1}
                ELSE modalsMap'[id].neg.idx = 1]_vars

\* C15 witness: a negotiation with two guards awaits its second guard, the
\* first having completed.
C15_Witness ==
    \E id \in Ids :
        /\ Len(modalsMap[id].neg.fns) = 2
        /\ modalsMap[id].neg.idx = 2

\* C16: after any open() call on an identity, isVisible() of the identity
\* is true, whatever the state of the identity before the call.
C16_OpenShows ==
    \A id \in Ids, thr \in BOOLEAN :
        LET S == open(Store, id, EmptyBag, thr) IN
        ~S.full => isVisible(S, id)

\* C18: a negotiation that open() has cancelled calls no further guard:
\* when its pending guard completes, whatever the result, no guard is
\* called.
C18_CancelledStops ==
    \A id \in Ids :
        \A k \in 1..Len(detached[id]), out \in Outcomes :
            resume(Store, id, k, out, FALSE).called = 0

\* C19: in every reachable state a record that is closing (isClosing =
\* true) is not visible.
C19_ClosingHidden ==
    \A id \in Ids : Closing(id) => ~modalsMap[id].visible

\* C17: with allowMultiple off and guards that never deny and never fail,
\* whenever no negotiation is in flight the registry holds at most one
\* record.
C17_SingleModal ==
    (\A id \in Ids : InFlight(id) = 0) =>
        Cardinality({id \in Ids : modalsMap[id] # NoRec}) <= 1

\* C17 witness: with allowMultiple off, a modal was opened while another
\* was in the queue (its stacking value is above the base), the other one's
\* close has ended, and the new modal's record is the only one.
C17_Witness ==
    /\ ~allowMultiple
    /\ \A id \in Ids : InFlight(id) = 0
    /\ \E id \in Ids :
          /\ modalsMap[id] # NoRec
          /\ modalsMap[id].zIndex > baseZIndex
          /\ modalQueue = <<id>>
          /\ \A other \in Ids \ {id} : modalsMap[other] = NoRec

\* C20: provided every guard that was called completes, every negotiation
\* concludes: a record that is closing is eventually deleted, replaced by a
\* reopen, or has isClosing cleared; and the negotiations that open()
\* cancelled conclude as well, so that the suspended calls never stay at
\* their maximal number.
C20_Termination ==
    /\ \A id \in Ids : Closing(id) ~> ~Closing(id)
    /\ (CountDetached(detached, Ids) = MaxDetached)
          ~> (CountDetached(detached, Ids) < MaxDetached)

\* C20 witness: one negotiation is suspended on the record of an identity
\* and, for the same identity, a negotiation that open() cancelled is
\* suspended as well.
C20_Witness ==
    \E id \in Ids :
        /\ Closing(id)
        /\ modalsMap[id].neg.idx >= 1
        /\ detached[id] # <<>>
        /\ detached[id][1].neg.idx >= 1

====
